---- MODULE Spec2Model ----
(***************************************************************************)
(* Model of TuringSimulation (src/julia-explorer/main.js, lines 690-1722): *)
(* the reaction-diffusion field held in two ping-pong textures, the        *)
(* stepper, the forcing tools, the parameter controller (sliders, eased    *)
(* transitions, journeys) and the animation loop that drives them.         *)
(*                                                                         *)
(* Fixed-point conventions (the code computes in floats):                  *)
(*   channel values     bytes 0..ByteMax (RGBA/UNSIGNED_BYTE textures);    *)
(*                      inside a shader, milli-bytes (1.0 = ByteMax*1000)  *)
(*   feedRate, killRate units of 0.0001                                    *)
(*   diffusionA/B       units of 0.001                                     *)
(*   simSpeed           units of 0.01                                      *)
(*   tool.strength, journey.speed   units of 0.1                           *)
(*   tool.size, pointer positions   units of 0.1 texel                     *)
(*   times              milliseconds; journey.time in milliseconds         *)
(***************************************************************************)
EXTENDS Integers, Sequences, FiniteSets, TLC

\* ------------------------------------------------------------------ bounds
resolution == 3          \* grid is resolution x resolution (512 in the code)
seedRadius == 1          \* centre blob radius, scaled with the grid (20 at 512)
FieldCmds == 2           \* UI events in one behaviour of SpecField
FieldFrames == 1         \* animation frames after the first, SpecField
ParamCmds == 2           \* UI events in one behaviour of SpecParams
ParamFrames == 2         \* animation frames after the first, SpecParams
JourneyCmds == 3         \* UI events in one behaviour of SpecJourney
JourneyFrames == 2       \* animation frames after the first, SpecJourney
ForceCmds == 3           \* UI events in one behaviour of SpecForce
PauseCmds == 3           \* UI events in one behaviour of SpecPause
PauseFrames == 3         \* animation frames after the first, SpecPause
RenderCmds == 3          \* UI events in one behaviour of SpecRender
StepperCmds == 2         \* UI events in one behaviour of SpecStepper
StepperFrames == 1       \* animation frames after the first, SpecStepper

\* -------------------------------------------------------- program constants
ByteMax == 255           \* UNSIGNED_BYTE channel, 1.0
duration == 1000         \* animateToParams: ms
FeedMax == 1000          \* updateJourney: Math.min(0.1, f)
KillMax == 800           \* updateJourney: Math.min(0.08, k)
StepsPerSpeed == 8       \* simulate: Math.ceil(simSpeed * 8)

\* ----------------------------------------------------------------- helpers
Min(a, b) == IF a < b THEN a ELSE b
Max(a, b) == IF a > b THEN a ELSE b

\* Math.ceil(n / d) for d > 0
CeilDiv(n, d) == -((-n) \div d)

\* GLSL clamp(x, lo, hi)
clamp_noop(x, lo, hi) == x
clamp(x, lo, hi) == Min(Max(x, lo), hi)

RECURSIVE SqrtIter(_, _)
SqrtIter(n, r) ==
    LET q == (r + n \div r) \div 2
    IN IF q >= r THEN r ELSE SqrtIter(n, q)

\* floor(sqrt(n)), n >= 0
ISqrt(n) == IF n < 2 THEN n ELSE SqrtIter(n, n)

Coords == 0 .. (resolution - 1)
Cells == Coords \X Coords

\* texture2D with TEXTURE_WRAP_S/T = REPEAT: texel addressing wraps
Wrap_edge(c) == clamp(c - resolution, 0, resolution - 1)
Wrap(c) == c % resolution

\* Conversion of a shader output (milli-bytes) to the stored byte
ToByte(v) == (clamp(v, 0, ByteMax * 1000) + 500) \div 1000


\* ------------------------------------------------------------ the shaders
\* simulationSource main(): 9-point Laplacian and Gray-Scott update of one
\* texel c of the source texture tex; result in bytes.
\* lap20 is 20 * laplacian of a channel (weights 0.2 -> 4, 0.05 -> 1, -1 -> -20).
Laplacian20_heavy(tex, c, ch) ==
    LET x == c[1]
        y == c[2]
        at(dx, dy) == tex[<<Wrap(x + dx + resolution), Wrap(y + dy + resolution)>>][ch]
    IN 4 * (at(-1, 0) + at(1, 0) + at(0, 1) + at(0, -1))
       + (at(-1, 1) + at(1, 1) + at(-1, -1) + at(1, -1))
       - 24 * at(0, 0)

Laplacian20(tex, c, ch) ==
    LET x == c[1]
        y == c[2]
        at(dx, dy) == tex[<<Wrap(x + dx + resolution), Wrap(y + dy + resolution)>>][ch]
    IN 4 * (at(-1, 0) + at(1, 0) + at(0, 1) + at(0, -1))
       + (at(-1, 1) + at(1, 1) + at(-1, -1) + at(1, -1))
       - 20 * at(0, 0)

SimulationShader(tex, c, feed, kill, dA, dB, dt) ==
    LET a == tex[c].r
        b == tex[c].g
        lapA == Laplacian20(tex, c, "r")
        lapB == Laplacian20(tex, c, "g")
        \* a * b * b in milli-bytes: a*b*b*1000 / ByteMax^2
        reaction == (a * b * b * 40) \div ((ByteMax * ByteMax * 40) \div 1000)
        diffA == (dA * lapA) \div 20
        diffB == (dB * lapB) \div 20
        feedA == (feed * (ByteMax - a)) \div 10
        killB == ((kill + feed) * b) \div 10
        newA == a * 1000 + (diffA - reaction + feedA) * dt
        newB == b * 1000 + (diffB + reaction - killB) * dt
    IN [r |-> ToByte(clamp(newA, 0, ByteMax * 1000)),
        g |-> ToByte(clamp(newB, 0, ByteMax * 1000))]

\* brushSource main(): texel c under a brush at u_brushPos = (bx, by)
\* (0.1 texel), u_brushSize = size (0.1 texel), u_brushStrength (0.1),
\* u_chemical (0 = A, 1 = B).
BrushDist(c, bx, by) ==
    LET dx == (10 * c[1] + 5) - bx
        dy == (10 * c[2] + 5) - by
    IN ISqrt((dx * dx + dy * dy) * 10000)      \* milli-texels

BrushFalloff_linear(dist, size, strength) ==
    LET ratio == (dist * 1000) \div (size * 100)
    IN ((1000 - ratio) * strength * 100) \div 1000

BrushFalloff(dist, size, strength) ==
    LET ratio == (dist * 1000) \div (size * 100)
    IN ((1000 - ratio) * (1000 - ratio) * strength) \div 10000

BrushShader_target(tex, c, bx, by, size, strength, chemical) ==
    LET current == tex[c]
        dist == BrushDist(c, bx, by)
        falloff == BrushFalloff(dist, size, strength) * ByteMax
        inside == dist < size * 100
    IN [r |-> ToByte(IF inside /\ chemical = 0
                     THEN Max(0, current.r * 1000 - falloff)
                     ELSE current.r * 1000),
        g |-> ToByte(IF inside /\ chemical # 0
                     THEN Min(ByteMax * 1000, current.g * 1000 + falloff)
                     ELSE current.g * 1000)]

BrushShader(tex, c, bx, by, size, strength, chemical) ==
    LET current == tex[c]
        dist == BrushDist(c, bx, by)
        falloff == BrushFalloff(dist, size, strength) * ByteMax   \* milli-bytes
        g == IF dist < size * 100
             THEN IF chemical = 0
                  THEN Max(0, current.g * 1000 - falloff)
                  ELSE Min(ByteMax * 1000, current.g * 1000 + falloff)
             ELSE current.g * 1000
    IN [r |-> ToByte(current.r * 1000), g |-> ToByte(g)]

\* applyStamp: the pixel data after the stamp loop, from the data read back
StampOffsets(size) == { d \in (-size) .. size : (d + size) % 10 = 0 }

StampHit(c, x, y, size) ==
    \E dx \in StampOffsets(size), dy \in StampOffsets(size) :
        /\ dx * dx + dy * dy <= size * size
        /\ (x + dx) \div 10 = c[1]
        /\ (10 * resolution - y + dy) \div 10 = c[2]

StampData(tex, x, y, size) ==
    [c \in Cells |-> IF StampHit(c, x, y, size)
                     THEN [tex[c] EXCEPT !.g = ByteMax]
                     ELSE tex[c]]

\* seedPattern: the pixel data, given the cells the Math.random() draws hit
SeedCentre(c) ==
    LET dx2 == 2 * c[1] - resolution      \* 2 * (x - cx)
        dy2 == 2 * c[2] - resolution
    IN dx2 * dx2 + dy2 * dy2 < 4 * seedRadius * seedRadius

SeedData(random) ==
    [c \in Cells |-> [r |-> ByteMax,
                      g |-> IF SeedCentre(c) \/ c \in random THEN ByteMax ELSE 0]]

\* createTexture: texImage2D with null data gives a zeroed texture
CreateTextures == [t \in 0 .. 1 |-> [c \in Cells |-> [r |-> 0, g |-> 0]]]

\* seedPattern, lines 1066-1070: the upload loop over this.textures
SeedTextures_current(tex, cur, random) == [tex EXCEPT ![cur] = SeedData(random)]
SeedTextures(tex, cur, random) == [t \in DOMAIN tex |-> SeedData(random)]

\* this.colorSchemes: the two endpoint colours of each scheme, in bytes
colorSchemes ==
    [classic |-> << <<0, 0, 0>>, <<255, 255, 255>> >>,
     thermal |-> << <<0, 0, 128>>, <<255, 0, 0>> >>,
     ocean   |-> << <<0, 30, 60>>, <<0, 200, 255>> >>,
     forest  |-> << <<10, 30, 10>>, <<100, 200, 80>> >>,
     sunset  |-> << <<60, 20, 80>>, <<255, 150, 50>> >>,
     neon    |-> << <<10, 0, 30>>, <<0, 255, 200>> >>]

\* mix(x, y, a) of GLSL on one colour component in bytes, a in 1/1000
Mix(x, y, a) == (x * (1000 - a) + y * a + 500) \div 1000

\* renderSource main(): the mix factor (1/1000) and the colour of texel c;
\* contrast and brightness in 0.1
RenderShader(tex, c, color1, color2, contrast, brightness) ==
    LET state == tex[c]
        value0 == (state.g * 1000) \div ByteMax
        value1 == ((value0 - 500) * contrast) \div 10 + 500
        value2 == (value1 * brightness) \div 10
        value == clamp(value2, 0, 1000)
    IN [value |-> value,
        color |-> [k \in 1 .. 3 |-> Mix(color1[k], color2[k], value)]]

\* the drawing buffer before the first draw call
BlankCanvas == [c \in Cells |-> [value |-> 0, color |-> [k \in 1 .. 3 |-> 0]]]

RandomSeeds == { {}, {<<0, 0>>}, {<<0, 0>>, <<0, resolution - 1>>} }


\* ------------------------------------------------- parameter controller
\* Math.sin / Math.cos of an angle in milliradians, result in 1/1000
\* (Bhaskara's rational approximation, exact at 0, pi/2, pi).
SinHalf(y) ==
    LET p == y * (3142 - y)
    IN (16 * p * 10) \div ((5 * 3142 * 3142 - 4 * p) \div 100)

Sin(x) ==
    LET m == x % 6284
    IN IF m < 3142 THEN SinHalf(m) ELSE -SinHalf(m - 3142)

Cos(x) == Sin(x + 1571)

\* animateToParams, animate closure: progress and eased, in 1/1000
Progress_unbounded(elapsed) == (elapsed * 1000) \div duration
Progress(elapsed) == Min(1000, (elapsed * 1000) \div duration)

Eased(progress) ==
    LET q == 1000 - progress
    IN 1000 - (q * q * q) \div 1000000

EaseValue(start, target, eased) == start + ((target - start) * eased) \div 1000

\* this.presets, in 0.0001
Systems == {"gray-scott", "brusselator", "schnakenberg"}

Presets ==
    [ sys \in Systems |->
        CASE sys = "gray-scott" ->
        << [f |-> 367, k |-> 649], [f |-> 545, k |-> 620], [f |-> 370, k |-> 610],
           [f |-> 180, k |-> 510], [f |-> 290, k |-> 570], [f |-> 380, k |-> 660],
           [f |-> 350, k |-> 600], [f |-> 140, k |-> 450], [f |-> 250, k |-> 550],
           [f |-> 460, k |-> 650], [f |-> 390, k |-> 649], [f |-> 260, k |-> 590] >>
          [] sys = "brusselator" ->
        << [f |-> 400, k |-> 600], [f |-> 350, k |-> 650], [f |-> 200, k |-> 550],
           [f |-> 250, k |-> 580], [f |-> 300, k |-> 620], [f |-> 450, k |-> 520] >>
          [] sys = "schnakenberg" ->
        << [f |-> 400, k |-> 600], [f |-> 300, k |-> 650], [f |-> 350, k |-> 580],
           [f |-> 200, k |-> 700], [f |-> 500, k |-> 550], [f |-> 250, k |-> 620] >> ]

\* updateJourney: the (f, k) of the switch, before the clamp.  jt is the
\* journey type, t the journey time (ms, so t is also t seconds in
\* milliradians), F/K the current parameters, tF/tK the random-walk target.
JourneyFK_wide(jt, t, F, K, tF, tK) ==
    CASE jt = "linear" ->
            LET progress == (Sin(t \div 2) + 1000) \div 2
            IN [f |-> 200 + (progress * 400) \div 1000,
                k |-> 450 + (progress * 250) \div 1000]
      [] jt = "circular" ->
            [f |-> 400 + (Cos(t) * 150) \div 1000,
             k |-> 580 + (Sin(t) * 250) \div 1000]
      [] jt = "figure8" ->
            [f |-> 400 + (Sin(t) * 200) \div 1000,
             k |-> 580 + (Sin(2 * t) * 100) \div 1000]
      [] jt = "random" ->
            [f |-> F + ((tF - F) * 2) \div 100,
             k |-> K + ((tK - K) * 2) \div 100]

JourneyFK(jt, t, F, K, tF, tK) ==
    CASE jt = "linear" ->
            LET progress == (Sin(t \div 2) + 1000) \div 2
            IN [f |-> 200 + (progress * 400) \div 1000,
                k |-> 450 + (progress * 250) \div 1000]
      [] jt = "circular" ->
            [f |-> 400 + (Cos(t) * 150) \div 1000,
             k |-> 580 + (Sin(t) * 150) \div 1000]
      [] jt = "figure8" ->
            [f |-> 400 + (Sin(t) * 200) \div 1000,
             k |-> 580 + (Sin(2 * t) * 100) \div 1000]
      [] jt = "random" ->
            [f |-> F + ((tF - F) * 2) \div 100,
             k |-> K + ((tK - K) * 2) \div 100]

JourneyTypes == {"none", "linear", "circular", "figure8", "random"}

\* updateJourney, lines 1212-1216: the published, clamped pair
JourneyPublish_raw(fk) == fk
JourneyPublish(fk) ==
    [f |-> Max(0, Min(FeedMax, fk.f)), k |-> Max(0, Min(KillMax, fk.k))]

\* simulate: number of sub-steps of one tick
Steps_min1(simSpeed) == Max(1, CeilDiv(simSpeed * StepsPerSpeed, 100))
Steps_floor(simSpeed) == (simSpeed * StepsPerSpeed) \div 100
Steps(simSpeed) == CeilDiv(simSpeed * StepsPerSpeed, 100)


\* ------------------------------------------------------------------ state
VARIABLES
    textures,        \* this.textures: [0..1 -> [Cells -> [r, g]]]
    currentTexture,  \* this.currentTexture
    params,          \* this.params
    tool,            \* this.tool
    visual,          \* this.visual (contrast and brightness in 0.1)
    frame,           \* the canvas: per cell, the mix factor and the colour
    journey,         \* this.journey (targetF = 0: not yet set)
    isRunning,       \* this.isRunning
    presetSystem,    \* the system whose presets the preset buttons hold
    now,             \* performance.now()
    lastTime,        \* this.lastTime
    rafQueue,        \* ease closures registered with requestAnimationFrame
    frameCbs,        \* ease closures still to run in the frame under way
    pc,              \* position of the animation loop
    i,               \* simulate: loop counter
    steps,           \* simulate: steps
    \* history variables
    lastOp,          \* the operation that produced this state
    tickLog,         \* <<src, dst>> of each sub-step of the tick under way
    tickStart,       \* currentTexture when the tick under way began
    lastWritten,     \* texture most recently drawn or uploaded to
    renderRead,      \* texture the last render pass sampled
    manual,          \* manual sets still in force
    easeDone,        \* the ease that completed undisturbed, if any
    nextId,          \* number of eases started
    cmds,            \* UI events handled
    frames           \* animation frames begun

vars == << textures, currentTexture, params, tool, visual, frame, journey, isRunning,
           presetSystem, now, lastTime, rafQueue, frameCbs, pc, i, steps,
           lastOp, tickLog, tickStart, lastWritten, renderRead, manual,
           easeDone, nextId, cmds, frames >>

fieldVars == << textures, currentTexture, lastWritten >>

Op(name, a, b) == [op |-> name, a |-> a, b |-> b]
NoVal == [set |-> FALSE, v |-> 0]
Val(v) == [set |-> TRUE, v |-> v]
NoEase == [set |-> FALSE, f |-> 0, k |-> 0]

\* updateJourney, line 1172: the journey is moving the parameters
JourneyEffective == journey.active /\ journey.type # "none"

SeqToSet(q) == { q[n] : n \in 1 .. Len(q) }
InFlight == SeqToSet(rafQueue) \cup SeqToSet(frameCbs)

\* ------------------------------------------------------------------- init
\* constructor + init(): defaults, createTextures, loadFromURL (url gives
\* the query parameters present), seedPattern (random: the cells the random
\* draws hit); the first animate() call is about to run.
Construct(url, random) ==
    /\ textures = SeedTextures(CreateTextures, 0, random)
    /\ currentTexture = 0
    /\ params = [feedRate   |-> IF url.f.set THEN url.f.v ELSE 550,
                 killRate   |-> IF url.k.set THEN url.k.v ELSE 620,
                 diffusionA |-> 210,
                 diffusionB |-> 105,
                 simSpeed   |-> 100,
                 system     |-> "gray-scott"]
    /\ tool = [type |-> "brush", chemical |-> "B", size |-> 300, strength |-> 10]
    /\ visual = [colorScheme |-> "classic", contrast |-> 10, brightness |-> 10]
    /\ frame = BlankCanvas
    /\ journey = [type |-> "none", active |-> FALSE, speed |-> 10, time |-> 0,
                  targetF |-> 0, targetK |-> 0]
    /\ isRunning = TRUE
    /\ presetSystem = "gray-scott"
    /\ now = 0
    /\ lastTime = 0
    /\ rafQueue = << >>
    /\ frameCbs = << >>
    /\ pc = "init"
    /\ i = 0
    /\ steps = 0
    /\ lastOp = Op("init", 0, 0)
    /\ tickLog = << >>
    /\ tickStart = 0
    /\ lastWritten = 0
    /\ renderRead = 0
    /\ manual = [f |-> NoVal, k |-> NoVal]
    /\ easeDone = NoEase
    /\ nextId = 0
    /\ cmds = 0
    /\ frames = 0

NoUrl == [f |-> NoVal, k |-> NoVal]


\* ------------------------------------------------------ the animation loop
\* updateJourney(dt): the journey and the parameters it leaves.  reroll, tF
\* and tK stand for the Math.random() draws of the 'random' case.
UpdateJourney(dt, reroll, tF, tK) ==
    IF ~JourneyEffective
    THEN [journey |-> journey, params |-> params]
    ELSE LET time == journey.time + (dt * journey.speed) \div 10
             draw == journey.type = "random" /\ (journey.targetF = 0 \/ reroll)
             j == [journey EXCEPT !.time = time,
                                  !.targetF = IF draw THEN tF ELSE @,
                                  !.targetK = IF draw THEN tK ELSE @]
             fk == JourneyPublish(JourneyFK(j.type, time, params.feedRate,
                                            params.killRate, j.targetF, j.targetK))
         IN [journey |-> j,
             params |-> [params EXCEPT !.feedRate = fk.f, !.killRate = fk.k]]

\* simulate, lines 1080-1081 and 1108; applyBrush, lines 1145 and 1168
SimSrc(cur) == cur
SimDst(cur) == 1 - cur
Swap_none(cur) == cur
Swap(cur) == 1 - cur
BrushDst(cur) == 1 - cur
BrushSwap(cur) == 1 - cur
\* applyStamp, lines 1621 and 1640: read back and upload target
StampSrc(cur) == cur
StampDst(cur) == cur

\* render, line 1131: the texture the render pass samples
RenderSrc_other(cur) == 1 - cur
RenderSrc(cur) == cur

\* animate(), lines 1220-1236: a frame begins d ms after the last one (the
\* first call is made by init()); updateJourney runs, simulate() is entered.
AnimateBegin(d, reroll, tF, tK) ==
    /\ \/ pc = "init" /\ d = 0
       \/ pc = "idle" /\ d > 0
    /\ reroll \/ ~(JourneyEffective /\ journey.type = "random" /\ journey.targetF = 0)
    /\ now' = now + d
    /\ lastTime' = now'
    /\ LET u == UpdateJourney(now' - lastTime, reroll, tF, tK)
       IN /\ journey' = u.journey
          /\ params' = u.params
    /\ frames' = IF pc = "init" THEN frames ELSE frames + 1
    /\ frameCbs' = rafQueue
    /\ rafQueue' = << >>
    /\ i' = 0
    /\ steps' = IF isRunning THEN Steps(params'.simSpeed) ELSE 0
    /\ pc' = IF steps' > 0 THEN "simulate" ELSE "render"
    /\ tickLog' = << >>
    /\ tickStart' = currentTexture
    /\ lastOp' = Op("animate", IF JourneyEffective THEN 1 ELSE 0, 0)
    /\ UNCHANGED << fieldVars, tool, visual, isRunning, presetSystem, renderRead, frame,
                    manual, easeDone, nextId, cmds >>

\* simulate(), the body of one loop iteration: the draw call into the other
\* texture, with the parameters p as uniforms
StepTextures(tex, cur, p) ==
    [tex EXCEPT ![SimDst(cur)] =
        [c \in Cells |-> SimulationShader(tex[SimSrc(cur)], c, p.feedRate,
                             p.killRate, p.diffusionA, p.diffusionB, 1)]]

\* simulate(), one iteration of the loop: draw into the other texture, swap
SubStep ==
    /\ pc = "simulate"
    /\ i < steps
    /\ textures' = StepTextures(textures, currentTexture, params)
    /\ tickLog' = Append(tickLog, [src |-> SimSrc(currentTexture),
                                   dst |-> SimDst(currentTexture)])
    /\ lastWritten' = SimDst(currentTexture)
    /\ currentTexture' = Swap(currentTexture)
    /\ i' = i + 1
    /\ pc' = IF i' < steps THEN "simulate" ELSE "render"
    /\ lastOp' = Op("substep", i', 0)
    /\ UNCHANGED << params, tool, visual, journey, isRunning, presetSystem, now,
                    lastTime, rafQueue, frameCbs, steps, tickStart, renderRead, frame,
                    manual, easeDone, nextId, cmds, frames >>

\* render(): uniforms from this.colorSchemes and this.visual, one draw call
RenderFrame(tex) ==
    LET colors == IF visual.colorScheme \in DOMAIN colorSchemes
                  THEN colorSchemes[visual.colorScheme]
                  ELSE colorSchemes.classic
    IN [c \in Cells |-> RenderShader(tex, c, colors[1], colors[2],
                                     visual.contrast, visual.brightness)]

\* render(), then the rest of animate(): the loop re-registers itself
Render ==
    /\ pc = "render"
    /\ renderRead' = RenderSrc(currentTexture)
    /\ frame' = RenderFrame(textures[renderRead'])
    /\ pc' = IF frameCbs = << >> THEN "idle" ELSE "callbacks"
    /\ lastOp' = Op("render", renderRead', 0)
    /\ UNCHANGED << fieldVars, params, tool, visual, journey, isRunning, presetSystem,
                    now, lastTime, rafQueue, frameCbs, i, steps, tickLog,
                    tickStart, manual, easeDone, nextId, cmds, frames >>

\* animateToParams, the animate closure e sampled at time t: the parameters
\* it writes and whether it asks for another frame
EaseWrite(e, t) ==
    LET eased == Eased(Progress(t - e.startTime))
    IN [params EXCEPT !.feedRate = EaseValue(e.startF, e.targetF, eased),
                      !.killRate = EaseValue(e.startK, e.targetK, eased)]

EaseAgain_always(e, t) == TRUE
EaseAgain(e, t) == Progress(t - e.startTime) < 1000

\* a requestAnimationFrame callback of an ease runs (after animate(), which
\* was registered before it)
EaseSample ==
    /\ pc = "callbacks"
    /\ frameCbs # << >>
    /\ LET e == Head(frameCbs)
       IN /\ params' = EaseWrite(e, now)
          /\ rafQueue' = IF EaseAgain(e, now) THEN Append(rafQueue, e) ELSE rafQueue
          /\ easeDone' = IF ~EaseAgain(e, now) /\ e.clean
                         THEN [set |-> TRUE, f |-> e.targetF, k |-> e.targetK]
                         ELSE easeDone
          /\ lastOp' = Op("easeSample", e.id, IF e.overrun THEN 1 ELSE 0)
    /\ frameCbs' = Tail(frameCbs)
    /\ pc' = IF frameCbs' = << >> THEN "idle" ELSE "callbacks"
    /\ UNCHANGED << fieldVars, tool, visual, journey, isRunning, presetSystem, now,
                    lastTime, i, steps, tickLog, tickStart, renderRead, frame, manual,
                    nextId, cmds, frames >>


\* ---------------------------------------------------------- UI handlers
\* Event handlers run between frames (the event loop runs one task at a time).
Idle_any == TRUE
Idle == pc = "idle"

\* history kept in the ease closures: clean is false once another parameter
\* command was issued or a journey ran while the ease was in flight, overrun
\* is true once a journey was activated while it was in flight
Disturb(q) == [n \in 1 .. Len(q) |-> [q[n] EXCEPT !.clean = FALSE]]
Overrun(q, activated) ==
    [n \in 1 .. Len(q) |-> [q[n] EXCEPT !.overrun = @ \/ activated]]

\* setupSlider, update(): the callback of slider key stores the parsed value
SliderStore_clamped(key, v) ==
    CASE key = "feedRate" -> Max(0, Min(FeedMax, v))
      [] key = "killRate" -> Max(0, Min(KillMax, v))
      [] OTHER -> v
SliderStore(key, v) == v

SliderInput(key, v) ==
    /\ Idle
    /\ params' = [params EXCEPT ![key] = SliderStore(key, v)]
    /\ IF key \in {"feedRate", "killRate"}
       THEN /\ rafQueue' = Disturb(rafQueue)
            /\ easeDone' = NoEase
            /\ manual' = IF JourneyEffective THEN manual
                         ELSE IF key = "feedRate"
                              THEN [manual EXCEPT !.f = Val(v)]
                              ELSE [manual EXCEPT !.k = Val(v)]
       ELSE UNCHANGED << rafQueue, easeDone, manual >>
    /\ lastOp' = Op(key, v, 0)
    /\ cmds' = cmds + 1
    /\ UNCHANGED << fieldVars, tool, visual, journey, isRunning, presetSystem, now,
                    lastTime, frameCbs, pc, i, steps, tickLog, tickStart,
                    renderRead, frame, nextId, frames >>

\* systemSelect change: the system and the preset buttons
SystemSelect(sys) ==
    /\ Idle
    /\ params' = [params EXCEPT !.system = sys]
    /\ presetSystem' = sys
    /\ lastOp' = Op("system", 0, 0)
    /\ cmds' = cmds + 1
    /\ UNCHANGED << fieldVars, tool, visual, journey, isRunning, now, lastTime,
                    rafQueue, frameCbs, pc, i, steps, tickLog, tickStart,
                    renderRead, frame, manual, easeDone, nextId, frames >>

\* tool buttons, chemical toggle, brushSize and brushStrength inputs
ToolInput(key, v) ==
    /\ Idle
    /\ tool' = [tool EXCEPT ![key] = v]
    /\ lastOp' = Op("tool", 0, 0)
    /\ cmds' = cmds + 1
    /\ UNCHANGED << fieldVars, params, visual, journey, isRunning, presetSystem,
                    now, lastTime, rafQueue, frameCbs, pc, i, steps, tickLog,
                    tickStart, renderRead, frame, manual, easeDone, nextId,
                    frames >>

\* contrast and brightness sliders, colorScheme change
VisualInput(key, v) ==
    /\ Idle
    /\ visual' = [visual EXCEPT ![key] = v]
    /\ lastOp' = Op("visual", 0, 0)
    /\ cmds' = cmds + 1
    /\ UNCHANGED << fieldVars, params, tool, frame, journey, isRunning,
                    presetSystem, now, lastTime, rafQueue, frameCbs, pc, i,
                    steps, tickLog, tickStart, renderRead, manual, easeDone,
                    nextId, frames >>

\* journeyType change, startJourney click, journeySpeed input
JourneyTypeChange(t) ==
    /\ Idle
    /\ journey' = [journey EXCEPT !.type = t]
    /\ rafQueue' = Overrun(Disturb(rafQueue),
                           ~JourneyEffective /\ journey.active /\ t # "none")
    /\ easeDone' = NoEase
    /\ manual' = [f |-> NoVal, k |-> NoVal]
    /\ lastOp' = Op("journeyType", IF t # journey.type THEN 1 ELSE 0, 0)
    /\ cmds' = cmds + 1
    /\ UNCHANGED << fieldVars, params, tool, visual, isRunning, presetSystem, now,
                    lastTime, frameCbs, pc, i, steps, tickLog, tickStart,
                    renderRead, frame, nextId, frames >>

StartJourneyClick ==
    /\ Idle
    /\ journey' = [journey EXCEPT !.active = ~journey.active, !.time = 0]
    /\ rafQueue' = Overrun(Disturb(rafQueue),
                           ~journey.active /\ journey.type # "none")
    /\ easeDone' = NoEase
    /\ manual' = [f |-> NoVal, k |-> NoVal]
    /\ lastOp' = Op("startJourney", 0, 0)
    /\ cmds' = cmds + 1
    /\ UNCHANGED << fieldVars, params, tool, visual, isRunning, presetSystem, now,
                    lastTime, frameCbs, pc, i, steps, tickLog, tickStart,
                    renderRead, frame, nextId, frames >>

JourneySpeedInput(v) ==
    /\ Idle
    /\ journey' = [journey EXCEPT !.speed = v]
    /\ lastOp' = Op("journeySpeed", v, 0)
    /\ cmds' = cmds + 1
    /\ UNCHANGED << fieldVars, params, tool, visual, isRunning, presetSystem, now,
                    lastTime, rafQueue, frameCbs, pc, i, steps, tickLog,
                    tickStart, renderRead, frame, manual, easeDone, nextId, frames >>

\* animateToParams(targetF, targetK): the closure is created and called once
\* at once (elapsed 0), which registers it for the next frame
AnimateToParams(targetF, targetK) ==
    LET e == [id |-> nextId + 1,
              startF |-> params.feedRate, startK |-> params.killRate,
              targetF |-> targetF, targetK |-> targetK,
              startTime |-> now, clean |-> ~JourneyEffective, overrun |-> FALSE]
    IN /\ params' = EaseWrite(e, now)
       /\ rafQueue' = IF EaseAgain(e, now)
                      THEN Append(Disturb(rafQueue), e)
                      ELSE Disturb(rafQueue)
       /\ nextId' = nextId + 1
       /\ easeDone' = NoEase
       /\ manual' = [f |-> NoVal, k |-> NoVal]
       /\ lastOp' = Op("animateToParams", nextId + 1, 0)
       /\ cmds' = cmds + 1
       /\ UNCHANGED << fieldVars, tool, visual, journey, isRunning, presetSystem, now,
                       lastTime, frameCbs, pc, i, steps, tickLog, tickStart,
                       renderRead, frame, frames >>

\* populatePresets, preset button click
PresetClick(index) ==
    /\ Idle
    /\ index \in 1 .. Len(Presets[presetSystem])
    /\ AnimateToParams(Presets[presetSystem][index].f, Presets[presetSystem][index].k)

\* setupParameterSpace, click at the fractions (x, y) of the canvas, in 1/1000
ParameterSpaceClick(x, y) ==
    /\ Idle
    /\ AnimateToParams((x * 800) \div 1000, (y * 800) \div 1000)

\* togglePause
TogglePause ==
    /\ Idle
    /\ isRunning' = ~isRunning
    /\ lastOp' = Op("togglePause", 0, 0)
    /\ cmds' = cmds + 1
    /\ UNCHANGED << fieldVars, params, tool, visual, journey, presetSystem, now,
                    lastTime, rafQueue, frameCbs, pc, i, steps, tickLog,
                    tickStart, renderRead, frame, manual, easeDone, nextId, frames >>

\* resetBtn click, key 'r': seedPattern() uploads the same data to both
\* textures
SeedPattern(random) ==
    /\ Idle
    /\ textures' = SeedTextures(textures, currentTexture, random)
    /\ lastWritten' = currentTexture
    /\ lastOp' = Op("seedPattern", 0, 0)
    /\ cmds' = cmds + 1
    /\ UNCHANGED << currentTexture, params, tool, visual, journey, isRunning,
                    presetSystem, now, lastTime, rafQueue, frameCbs, pc, i,
                    steps, tickLog, tickStart, renderRead, frame, manual, easeDone,
                    nextId, frames >>

\* stepBtn click: when paused, simulate() (which returns at once, as
\* isRunning is false) and render()
StepClick ==
    /\ Idle
    /\ IF ~isRunning
       THEN /\ renderRead' = RenderSrc(currentTexture)
            /\ frame' = RenderFrame(textures[renderRead'])
       ELSE UNCHANGED << renderRead, frame >>
    /\ lastOp' = Op("step", IF ~isRunning THEN 1 ELSE 0, 0)
    /\ cmds' = cmds + 1
    /\ UNCHANGED << fieldVars, params, tool, visual, journey, isRunning, presetSystem,
                    now, lastTime, rafQueue, frameCbs, pc, i, steps, tickLog,
                    tickStart, manual, easeDone, nextId, frames >>

\* handleCanvasInteraction at texture-space pointer position (x, y):
\* applyBrush for brush and eraser, applyStamp for stamp
ApplyBrush(x, y, chemical) ==
    LET src == currentTexture
        dst == BrushDst(currentTexture)
    IN /\ textures' = [textures EXCEPT ![dst] =
              [c \in Cells |-> BrushShader(textures[src], c, x,
                  10 * resolution - y, tool.size, tool.strength,
                  IF chemical = "B" THEN 1 ELSE 0)]]
       /\ lastWritten' = dst
       /\ currentTexture' = BrushSwap(currentTexture)

ApplyStamp(x, y) ==
    /\ textures' = [textures EXCEPT ![StampDst(currentTexture)] =
           StampData(textures[StampSrc(currentTexture)], x, y, tool.size)]
    /\ lastWritten' = StampDst(currentTexture)
    /\ UNCHANGED currentTexture

HandleCanvasInteraction(x, y) ==
    /\ Idle
    /\ CASE tool.type \in {"brush", "eraser"} ->
              ApplyBrush(x, y, IF tool.type = "eraser" THEN "A" ELSE tool.chemical)
         [] tool.type = "stamp" -> ApplyStamp(x, y)
         [] OTHER -> UNCHANGED fieldVars
    /\ lastOp' = [op |-> tool.type, a |-> currentTexture, b |-> 0, x |-> x, y |-> y]
    /\ cmds' = cmds + 1
    /\ UNCHANGED << params, tool, visual, journey, isRunning, presetSystem, now,
                    lastTime, rafQueue, frameCbs, pc, i, steps, tickLog,
                    tickStart, renderRead, frame, manual, easeDone, nextId, frames >>


\* --------------------------------------------------------- specifications
\* Inputs of the handlers, drawn from small sets.
FieldSliders ==
    { <<"feedRate", -10000>>, <<"killRate", 100000>>,
      <<"diffusionA", 1000>>, <<"diffusionB", 500>>,
      <<"simSpeed", 0>>, <<"simSpeed", 30>> }
FieldTools == { <<"type", "eraser">>, <<"type", "stamp">>, <<"chemical", "A">> }
ForceTools ==
    { <<"type", "eraser">>, <<"type", "stamp">>, <<"type", "brush">>,
      <<"chemical", "A">>, <<"size", 10>>, <<"strength", 5>> }
Pointers == { <<0, 5>>, <<15, 25>> }

ParamSliders == { <<"feedRate", -10000>>, <<"feedRate", 200>>, <<"killRate", 100000>> }
UrlValues == { NoUrl, [f |-> Val(200), k |-> Val(300)], [f |-> Val(-10000), k |-> NoVal] }
PresetIndexes == {1}
SpaceClicks == { <<750, 875>> }
FrameGaps == {600}

\* The field: seeding, the stepper, the forcing tools, the render pass.
InitField == \E random \in RandomSeeds : Construct(NoUrl, random)

NextField ==
    \/ (pc = "init" \/ frames < FieldFrames) /\ \E d \in {0, 16} : AnimateBegin(d, FALSE, 0, 0)
    \/ SubStep
    \/ Render
    \/ cmds < FieldCmds /\ \E kv \in FieldSliders : SliderInput(kv[1], kv[2])
    \/ cmds < FieldCmds /\ \E kv \in FieldTools : ToolInput(kv[1], kv[2])
    \/ cmds < FieldCmds /\ \E p \in Pointers : HandleCanvasInteraction(p[1], p[2])
    \/ cmds < FieldCmds /\ \E random \in RandomSeeds : SeedPattern(random)
    \/ cmds < FieldCmds /\ TogglePause
    \/ cmds < FieldCmds /\ StepClick

SpecField == InitField /\ [][NextField]_vars

\* The parameter controller: URL load, manual sets, eased transitions.
InitParams == \E url \in UrlValues : Construct(url, {})

NextParams ==
    \/ (pc = "init" \/ frames < ParamFrames) /\ \E d \in {0} \cup FrameGaps : AnimateBegin(d, FALSE, 0, 0)
    \/ SubStep
    \/ Render
    \/ EaseSample
    \/ cmds < ParamCmds /\ \E kv \in ParamSliders : SliderInput(kv[1], kv[2])
    \/ cmds < ParamCmds /\ \E n \in PresetIndexes : PresetClick(n)
    \/ cmds < ParamCmds /\ \E c \in SpaceClicks : ParameterSpaceClick(c[1], c[2])

SpecParams == InitParams /\ [][NextParams]_vars


\* Journeys, with an eased transition beside them.
JourneyInputs == {"linear", "circular", "figure8", "random"}
RandomDraws ==
    { [reroll |-> FALSE, tF |-> 0, tK |-> 0],
      [reroll |-> TRUE, tF |-> 150, tK |-> 749] }

JourneySliders == { <<"feedRate", -10000>> }

InitJourney == Construct(NoUrl, {})

NextJourney ==
    \/ (pc = "init" \/ frames < JourneyFrames) /\ \E d \in {0} \cup FrameGaps, rd \in RandomDraws :
            AnimateBegin(d, rd.reroll, rd.tF, rd.tK)
    \/ SubStep
    \/ Render
    \/ EaseSample
    \/ cmds < JourneyCmds /\ \E t \in JourneyInputs : JourneyTypeChange(t)
    \/ cmds < JourneyCmds /\ StartJourneyClick
    \/ cmds < JourneyCmds /\ \E v \in {25} : JourneySpeedInput(v)
    \/ cmds < JourneyCmds /\ \E n \in PresetIndexes : PresetClick(n)
    \/ cmds < JourneyCmds /\ \E kv \in JourneySliders : SliderInput(kv[1], kv[2])

SpecJourney == InitJourney /\ [][NextJourney]_vars

\* The forcing tools on the field the first tick leaves.
InitForce == \E random \in RandomSeeds : Construct(NoUrl, random)

NextForce ==
    \/ pc = "init" /\ AnimateBegin(0, FALSE, 0, 0)
    \/ SubStep
    \/ Render
    \/ cmds < ForceCmds /\ \E kv \in ForceTools : ToolInput(kv[1], kv[2])
    \/ cmds < ForceCmds /\ \E p \in Pointers : HandleCanvasInteraction(p[1], p[2])
    \/ cmds < ForceCmds /\ \E random \in RandomSeeds : SeedPattern(random)

SpecForce == InitForce /\ [][NextForce]_vars

\* The stepper under parameter and model changes.
StepperSliders ==
    { <<"feedRate", 100000>>, <<"killRate", 100000>>, <<"diffusionA", 1000>> }
StepperSystems == {"brusselator", "schnakenberg"}

InitStepper == \E random \in RandomSeeds : Construct(NoUrl, random)

NextStepper ==
    \/ (pc = "init" \/ frames < StepperFrames) /\ \E d \in {0, 16} : AnimateBegin(d, FALSE, 0, 0)
    \/ SubStep
    \/ Render
    \/ cmds < StepperCmds /\ \E kv \in StepperSliders : SliderInput(kv[1], kv[2])
    \/ cmds < StepperCmds /\ \E sys \in StepperSystems : SystemSelect(sys)

SpecStepper == InitStepper /\ [][NextStepper]_vars

\* The canvas under the visual controls and the Step button.
VisualInputs ==
    { <<"contrast", 20>>, <<"contrast", 5>>, <<"brightness", 5>>,
      <<"brightness", 20>>, <<"colorScheme", "thermal">> }

RenderSliders == { <<"simSpeed", 10>> }

InitRender == \E random \in RandomSeeds : Construct(NoUrl, random)

NextRender ==
    \/ pc = "init" /\ AnimateBegin(0, FALSE, 0, 0)
    \/ SubStep
    \/ Render
    \/ cmds < RenderCmds /\ \E kv \in VisualInputs : VisualInput(kv[1], kv[2])
    \/ cmds < RenderCmds /\ TogglePause
    \/ cmds < RenderCmds /\ StepClick
    \/ cmds < RenderCmds /\ \E kv \in RenderSliders : SliderInput(kv[1], kv[2])

SpecRender == InitRender /\ [][NextRender]_vars

\* Pause and the closed journeys.
PauseJourneys == {"linear", "circular", "figure8"}
PauseGaps == {785, 1571}       \* ms between frames: pi/4 and pi/2 of phase

InitPause == Construct(NoUrl, {})

NextPause ==
    \/ (pc = "init" \/ frames < PauseFrames) /\ \E d \in {0} \cup PauseGaps :
            AnimateBegin(d, FALSE, 0, 0)
    \/ SubStep
    \/ Render
    \/ cmds < PauseCmds /\ TogglePause
    \/ cmds < PauseCmds /\ \E t \in PauseJourneys : JourneyTypeChange(t)
    \/ cmds < PauseCmds /\ StartJourneyClick

SpecPause == InitPause /\ [][NextPause]_vars


\* ------------------------------------------------------------- properties
ForcingOps == {"brush", "eraser", "stamp"}

\* distance of a parameter to a target
Abs(a) == IF a < 0 THEN -a ELSE a

\* C1: after seeding and any sequence of sub-steps (for any F, K, diffusionA,
\* diffusionB) interleaved with brush, eraser and stamp applications, every
\* cell's A and B value of both textures lies within [0, 1] (0..ByteMax).
C1_FieldInRange ==
    \A t \in 0 .. 1 : \A c \in Cells :
        /\ textures[t][c].r \in 0 .. ByteMax
        /\ textures[t][c].g \in 0 .. ByteMax

\* C1 witness: a sub-step has run with F = -1 (out of domain), which drives
\* A below 0 before the clamp: some cell's A is stored as 0.
C1_Witness ==
    /\ lastOp.op = "substep"
    /\ params.feedRate < 0
    /\ \E c \in Cells : textures[currentTexture][c].r = 0

\* C2: in every reachable state feedRate is within [0, 0.1] and killRate is
\* within [0, 0.08], whichever path last mutated them.
C2_ParamsInDomain ==
    /\ params.feedRate \in 0 .. FeedMax
    /\ params.killRate \in 0 .. KillMax

\* C3: a manual parameter set is stored clamped to the domain: right after
\* the feedRate (killRate) slider handler ran with value v, the stored
\* feedRate is clamp(v, 0, 0.1) (the stored killRate is clamp(v, 0, 0.08)).
C3_ManualSetClamped ==
    /\ lastOp.op = "feedRate" => params.feedRate = Max(0, Min(FeedMax, lastOp.a))
    /\ lastOp.op = "killRate" => params.killRate = Max(0, Min(KillMax, lastOp.a))

\* C4: every forcing call (brush, eraser, stamp) writes only the texture that
\* was not current when the call started and then swaps exactly once.
\* (lastOp.a is currentTexture at the start of the call.)
C4_ForcingWritesScratch ==
    lastOp.op \in ForcingOps =>
        /\ lastWritten = 1 - lastOp.a
        /\ currentTexture = 1 - lastOp.a

\* C5: a running tick performs exactly ceil(simSpeed * 8) sub-steps in
\* sequence: sub-step j reads the texture sub-step j-1 wrote (the first one
\* the texture current when the tick began) and writes the other one, the
\* current index flips once per sub-step, and when simulate() returns the
\* number of sub-steps done is the least integer >= simSpeed * 8.
C5_SubStepsInSequence ==
    /\ Len(tickLog) = i
    /\ \A j \in 1 .. Len(tickLog) :
          /\ tickLog[j].src = IF j = 1 THEN tickStart ELSE tickLog[j - 1].dst
          /\ tickLog[j].dst = 1 - tickLog[j].src
    /\ pc \in {"simulate", "render"} => currentTexture = (tickStart + i) % 2
    /\ (pc = "render" /\ isRunning) =>
          /\ i * 100 >= params.simSpeed * StepsPerSpeed
          /\ (i - 1) * 100 < params.simSpeed * StepsPerSpeed

\* C5 witness: simulate() has returned after 3 sub-steps at simSpeed 0.3
\* (0.3 * 8 = 2.4).
C5_Witness ==
    /\ pc = "render"
    /\ isRunning
    /\ params.simSpeed = 30
    /\ i = 3

\* C6: the render pass reads the texture that is current, which is the one
\* the last completed sub-step or forcing call wrote, and it runs only when
\* every sub-step of the tick has completed.
C6_RenderReadsFinal ==
    (lastOp.op = "render" \/ (lastOp.op = "step" /\ lastOp.a = 1)) =>
        /\ renderRead = currentTexture
        /\ renderRead = lastWritten
        /\ i = steps

\* C6 witness: a render pass after a brush or eraser call (which flipped the
\* index between the frames) and the 8 sub-steps of the tick.
C6_Witness ==
    /\ lastOp.op = "render"
    /\ frames = 1
    /\ tickStart = 1
    /\ i = 8

\* C7: once an ease has been sampled at or after 1000 ms, with no other
\* parameter command and no active journey since it started, feedRate and
\* killRate equal its target and no ease callback is scheduled.
C7_EaseCompletes ==
    easeDone.set =>
        /\ params.feedRate = easeDone.f
        /\ params.killRate = easeDone.k
        /\ rafQueue = << >>
        /\ frameCbs = << >>

\* C7 witness: the ease from (0.02, 0.03) to (0.06, 0.07) has completed.
C7_Witness ==
    /\ easeDone.set
    /\ easeDone.f = 600
    /\ easeDone.k = 700
    /\ params.feedRate = 600
    /\ params.killRate = 700
    /\ now >= 1000

\* C8: while an ease is in flight, from one state to the next the distance
\* of F and of K to that ease's target never grows.
C8_EaseMonotone ==
    [][\A e \in InFlight :
          (\E e2 \in InFlight' : e2.id = e.id) =>
              /\ Abs(params'.feedRate - e.targetF) <= Abs(params.feedRate - e.targetF)
              /\ Abs(params'.killRate - e.targetK) <= Abs(params.killRate - e.targetK)]_vars

\* C9: after a manual set (with no journey running) the stored F (K) is the
\* value set, and stays so until another parameter command is issued.
C9_ManualSetHolds ==
    /\ manual.f.set => params.feedRate = manual.f.v
    /\ manual.k.set => params.killRate = manual.k.v

\* C10: once a journey has been started while an ease was in flight, that
\* ease writes feedRate and killRate no more while the journey runs.
C10_JourneyCancelsEase ==
    ~(lastOp.op = "easeSample" /\ lastOp.b = 1 /\ JourneyEffective)


\* C11: every journey tick that publishes parameters stores
\* feedRate = clamp(f, 0, 0.1) and killRate = clamp(k, 0, 0.08), f and k being
\* the values the journey type's formula gives at the tick's phase (for the
\* random walk, from the parameters before the tick and the target in force).
C11_JourneyClamped ==
    [][(lastOp'.op = "animate" /\ lastOp'.a = 1) =>
          LET raw == JourneyFK(journey'.type, journey'.time, params.feedRate,
                               params.killRate, journey'.targetF, journey'.targetK)
          IN /\ params'.feedRate = Max(0, Min(FeedMax, raw.f))
             /\ params'.killRate = Max(0, Min(KillMax, raw.k))
             /\ params'.feedRate \in 0 .. FeedMax
             /\ params'.killRate \in 0 .. KillMax]_vars

\* C11 witness: a random-walk tick ran from F = -1 (set by hand), where
\* f = F + (targetF - F) * 0.02 is below 0, and published feedRate = 0.
C11_Witness ==
    /\ lastOp.op = "animate"
    /\ lastOp.a = 1
    /\ journey.type = "random"
    /\ journey.targetF > 0
    /\ params.feedRate = 0

\* C12: whenever a journey is activated or re-activated (started, or switched
\* to another type while running) its phase is 0 when its first tick begins;
\* while no journey is active, a tick changes neither the phase nor F and K.
C12_PhaseReset ==
    [][/\ (/\ JourneyEffective'
           /\ \/ lastOp'.op = "startJourney"
              \/ lastOp'.op = "journeyType" /\ lastOp'.a = 1)
          => journey'.time = 0
       /\ (lastOp'.op = "animate" /\ lastOp'.a = 0)
          => /\ journey' = journey
             /\ params' = params]_vars


C14_ZeroStepsNoOp ==
    [][/\ (lastOp'.op = "animate" /\ params'.simSpeed = 0) => steps' = 0
       /\ (\/ lastOp'.op = "animate" /\ params'.simSpeed = 0
           \/ pc \in {"simulate", "render"} /\ params.simSpeed = 0)
          => /\ textures' = textures
             /\ currentTexture' = currentTexture]_vars

\* C14 witness: a running tick at simSpeed 0 has rendered, with no sub-step.
C14_Witness ==
    /\ lastOp.op = "render"
    /\ isRunning
    /\ params.simSpeed = 0
    /\ frames = 1
    /\ steps = 0
    /\ tickLog = << >>

\* C16: immediately after a seed (at start-up or by the reset button) the two
\* textures are cell-for-cell identical, whichever of the two is current.
C16_SeedBothBuffers ==
    lastOp.op \in {"init", "seedPattern"} =>
        \A c \in Cells : textures[0][c] = textures[1][c]

\* C16 witness: a reseed while texture 1 is current, with a random cluster
\* beside the centre blob.
C16_Witness ==
    /\ lastOp.op = "seedPattern"
    /\ currentTexture = 1
    /\ textures[0][<<0, 0>>].g = ByteMax
    /\ textures[1][<<0, 0>>].g = ByteMax


\* After a forcing call: the texture the call read, the texture it left
\* current, the distance of cell c to the forcing centre (milli-texels) and
\* the radius (milli-texels).
ForceBefore == textures[lastOp.a]
ForceAfter == textures[currentTexture]
ForceDist(c) == BrushDist(c, lastOp.x, 10 * resolution - lastOp.y)
ForceRadius == tool.size * 100

\* (1 - dist/radius)^2 * strength in 0.1 byte, dist rounded down to 0.1 texel
ExpectedAdd(c) ==
    LET d == ForceDist(c) \div 100
    IN ((tool.size - d) * (tool.size - d) * tool.strength * ByteMax)
           \div (tool.size * tool.size)

\* C17: a brush application in add mode on channel B adds
\* (1 - dist/radius)^2 * strength to B of every cell with dist < radius,
\* clamped at 1 (here: to within 3 bytes, which covers the rounding of dist);
\* with strength 1 the B of the cell at the centre becomes 1.0; and of two
\* cells within the radius whose B stays below 1, the nearer one gains
\* strictly more.
C17_BrushFalloff ==
    (lastOp.op = "brush" /\ tool.chemical = "B") =>
        \A c \in Cells : ForceDist(c) < ForceRadius =>
            /\ Abs(10 * ForceAfter[c].g
                   - Min(10 * ByteMax, 10 * ForceBefore[c].g + ExpectedAdd(c))) <= 30
            /\ (ForceDist(c) = 0 /\ tool.strength = 10) => ForceAfter[c].g = ByteMax
            /\ \A c2 \in Cells :
                  (/\ ForceDist(c) < ForceDist(c2)
                   /\ ForceDist(c2) < ForceRadius
                   /\ ForceAfter[c].g < ByteMax
                   /\ ForceAfter[c2].g < ByteMax)
                  => ForceAfter[c].g - ForceBefore[c].g
                         > ForceAfter[c2].g - ForceBefore[c2].g

\* C17 witness: a brush stroke on B at strength 1 and radius 30 centred on a
\* cell whose B was 0 and became 1.0, with two other cells at different
\* distances both left below 1.
C17_Witness ==
    /\ lastOp.op = "brush"
    /\ tool.chemical = "B"
    /\ tool.strength = 10
    /\ \E c \in Cells : /\ ForceDist(c) = 0
                        /\ ForceBefore[c].g = 0
                        /\ ForceAfter[c].g = ByteMax
    /\ \E c, c2 \in Cells : /\ 0 < ForceDist(c)
                            /\ ForceDist(c) < ForceDist(c2)
                            /\ ForceDist(c2) < ForceRadius
                            /\ ForceAfter[c2].g < ForceAfter[c].g
                            /\ ForceAfter[c].g < ByteMax


\* C18: a forcing application (brush, eraser, stamp) has zero effect beyond
\* its radius: every cell whose distance from the forcing centre is greater
\* than or equal to the radius has the same A and B after the call as before.
C18_NoEffectBeyondRadius ==
    [][lastOp'.op \in ForcingOps =>
          \A c \in Cells :
              BrushDist(c, lastOp'.x, 10 * resolution - lastOp'.y) >= tool.size * 100
                  => textures'[currentTexture'][c] = textures[currentTexture][c]]_vars

\* the chemical a brush or eraser call passed to the shader
ForceChemical == IF lastOp.op = "eraser" THEN "A" ELSE tool.chemical

ToroidalDist(c) ==
    LET dx == Abs((10 * c[1] + 5) - lastOp.x)
        dy == Abs((10 * c[2] + 5) - (10 * resolution - lastOp.y))
        wx == Min(dx, 10 * resolution - dx)
        wy == Min(dy, 10 * resolution - dy)
    IN ISqrt((wx * wx + wy * wy) * 10000)

\* C20: forcing distance is toroidal: a cell is affected exactly when its
\* wrap-around distance to the centre is less than the radius.  A brush on B
\* raises the B (if below 1) of every cell whose wrap-around distance gives a
\* falloff of at least one byte; a stamp sets the B of every cell within the
\* wrap-around radius to 1.
C20_ToroidalForcing ==
    /\ (lastOp.op = "brush" /\ tool.chemical = "B") =>
          \A c \in Cells :
              (/\ ToroidalDist(c) < ForceRadius
               /\ BrushFalloff(ToroidalDist(c), tool.size, tool.strength) * ByteMax >= 1000
               /\ ForceBefore[c].g < ByteMax)
              => ForceAfter[c].g > ForceBefore[c].g
    /\ lastOp.op = "stamp" =>
          \A c \in Cells : ToroidalDist(c) < ForceRadius => ForceAfter[c].g = ByteMax


\* After a sub-step: the texture it read and the texture it wrote.
StepBefore == textures[1 - currentTexture]
StepAfter == textures[currentTexture]

\* C21: after the model is switched, a sub-step applies the newly selected
\* model's kinetics, not the previous one's: with brusselator or
\* schnakenberg selected, a sub-step of a field in which the reaction term is
\* not zero everywhere gives a result that differs from the Gray-Scott update.
C21_ModelSelectsKinetics ==
    (/\ lastOp.op = "substep"
     /\ params.system # "gray-scott"
     /\ \E c \in Cells : StepBefore[c].r > 0 /\ StepBefore[c].g > 0)
    => \E c \in Cells :
           StepAfter[c] # SimulationShader(StepBefore, c, params.feedRate,
                              params.killRate, params.diffusionA,
                              params.diffusionB, 1)


\* The value of channel ch at the texel (dx, dy) away from c, on the torus.
TorusAt(tex, c, dx, dy, ch) ==
    tex[<<(c[1] + dx + resolution) % resolution,
          (c[2] + dy + resolution) % resolution>>][ch]

\* 20 times the weighted stencil sum minus the centre: cardinal neighbours
\* weigh 0.2, diagonal neighbours 0.05.
TorusLap20(tex, c, ch) ==
    4 * (TorusAt(tex, c, -1, 0, ch) + TorusAt(tex, c, 1, 0, ch)
         + TorusAt(tex, c, 0, -1, ch) + TorusAt(tex, c, 0, 1, ch))
    + TorusAt(tex, c, -1, -1, ch) + TorusAt(tex, c, 1, -1, ch)
    + TorusAt(tex, c, -1, 1, ch) + TorusAt(tex, c, 1, 1, ch)
    - 20 * tex[c][ch]

\* A * B^2 in units of 1/10000 byte, for A and B in bytes.
ReactionTerm(a, b) == ((((a * b * b) * 100) \div ByteMax) * 100) \div ByteMax

\* The Gray-Scott update of the claim, in units of 1/10000 byte.
GrayScottA(tex, c) ==
    10000 * tex[c].r + (params.diffusionA * TorusLap20(tex, c, "r")) \div 2
    - ReactionTerm(tex[c].r, tex[c].g)
    + params.feedRate * (ByteMax - tex[c].r)

GrayScottB(tex, c) ==
    10000 * tex[c].g + (params.diffusionB * TorusLap20(tex, c, "g")) \div 2
    + ReactionTerm(tex[c].r, tex[c].g)
    - (params.killRate + params.feedRate) * tex[c].g

\* C25: one sub-step computes, per cell, A' = clamp01(A + dA * lap(A)
\* - A*B^2 + F*(1 - A)) and B' = clamp01(B + dB * lap(B) + A*B^2
\* - (K + F)*B) with dt = 1 and the 9-point toroidal stencil; the stored
\* byte is within one byte of that value.
C25_GrayScottStep ==
    lastOp.op = "substep" =>
        \A c \in Cells :
            /\ Abs(10000 * StepAfter[c].r
                   - clamp(GrayScottA(StepBefore, c), 0, 10000 * ByteMax)) <= 10000
            /\ Abs(10000 * StepAfter[c].g
                   - clamp(GrayScottB(StepBefore, c), 0, 10000 * ByteMax)) <= 10000

\* a sub-step changed a cell on the left edge whose neighbour across the
\* edge holds a different value
C25_Witness ==
    /\ lastOp.op = "substep"
    /\ \E y \in Coords :
           /\ StepBefore[<<resolution - 1, y>>] # StepBefore[<<0, y>>]
           /\ StepAfter[<<0, y>>] # StepBefore[<<0, y>>]

Uniform(tex) == \A c, d \in Cells : tex[c] = tex[d]
Trivial(tex) == \A c \in Cells : tex[c].r = ByteMax /\ tex[c].g = 0

\* C29: a sub-step maps the trivial field (A = 1, B = 0 everywhere) to
\* itself whatever F, K, dA and dB are, and maps a uniform field to a
\* uniform field.
C29_TrivialFixedPoint ==
    lastOp.op = "substep" =>
        /\ Trivial(StepBefore) => Trivial(StepAfter)
        /\ Uniform(StepBefore) => Uniform(StepAfter)

\* a sub-step ran on the trivial field with parameters set from the sliders
C29_Witness ==
    /\ lastOp.op = "substep"
    /\ Trivial(StepBefore)
    /\ params.feedRate = 100000


\* A render has just drawn the canvas (animation frame or Step button).
JustRendered == lastOp.op = "render" \/ (lastOp.op = "step" /\ lastOp.a = 1)

\* The claim's mix factor for a B byte g, in 1/1000: contrast about the
\* middle, clamp to [0, 1], then brightness.
ClampThenBrighten(g) ==
    (clamp((((g * 1000) \div ByteMax - 500) * visual.contrast) \div 10 + 500,
           0, 1000) * visual.brightness) \div 10

\* C22: the canvas shows, per cell, the linear mix of the scheme's two
\* endpoint colours at the factor clamp01((B - 0.5) * contrast + 0.5)
\* * brightness, computed from channel B alone (the clamp comes before the
\* brightness multiplication).
C22_ClampBeforeBrightness ==
    JustRendered =>
        \A c \in Cells :
            Abs(frame[c].value - ClampThenBrighten(textures[renderRead][c].g)) <= 2


TickOps == {"animate", "substep", "render"}

\* C23: while the simulation is paused, the steps of an animation frame
\* change neither the field, nor the current index, nor the journey phase,
\* nor F and K.
C23_PausedFrameIdle ==
    [][(~isRunning /\ lastOp'.op \in TickOps) =>
          /\ textures' = textures
          /\ currentTexture' = currentTexture
          /\ journey'.time = journey.time
          /\ params'.feedRate = params.feedRate
          /\ params'.killRate = params.killRate]_vars

\* C28: a Step click while paused runs exactly ceil(simSpeed * 8)
\* sub-steps (so the current index moves by that many swaps, and a single
\* sub-step leaves the Gray-Scott update of the field), renders, and
\* leaves the simulation paused.
C28_StepAdvances ==
    [][(~isRunning /\ lastOp'.op = "step") =>
          /\ currentTexture' = (currentTexture + Steps(params.simSpeed)) % 2
          /\ Steps(params.simSpeed) = 1 =>
                 textures' = StepTextures(textures, currentTexture, params)
          /\ JustRendered'
          /\ ~isRunning']_vars

ClosedJourneys == {"linear", "circular", "figure8"}

\* The (f, k) box the claim gives for each closed journey, in 0.0001.
JourneyBox(jt) ==
    CASE jt = "linear"   -> [fLo |-> 200, fHi |-> 600, kLo |-> 450, kHi |-> 700]
      [] jt = "circular" -> [fLo |-> 250, fHi |-> 550, kLo |-> 430, kHi |-> 730]
      [] jt = "figure8"  -> [fLo |-> 200, fHi |-> 600, kLo |-> 480, kHi |-> 680]

\* C30: on a tick of a Linear, Circular or Figure8 journey the published
\* (F, K) lies in the journey's box (Linear [0.02, 0.06] x [0.045, 0.07],
\* Circular [0.025, 0.055] x [0.043, 0.073], Figure8 [0.02, 0.06] x
\* [0.048, 0.068]), which is inside the domain, so the clamp changes nothing.
C30_ClosedJourneysInDomain ==
    (lastOp.op = "animate" /\ lastOp.a = 1 /\ journey.type \in ClosedJourneys) =>
        LET box == JourneyBox(journey.type)
        IN /\ box.fLo <= params.feedRate /\ params.feedRate <= box.fHi
           /\ box.kLo <= params.killRate /\ params.killRate <= box.kHi
           /\ 0 <= box.fLo /\ box.fHi <= FeedMax
           /\ 0 <= box.kLo /\ box.kHi <= KillMax

\* a circular journey's tick published the top of its orbit
C30_Witness ==
    /\ lastOp.op = "animate" /\ lastOp.a = 1
    /\ journey.type = "circular"
    /\ journey.time > 0
    /\ params.killRate = 730


\* C24: a forcing call runs only at a tick boundary (no sub-step of a tick
\* is pending before or after it) and is one read-current / write-scratch /
\* swap: it leaves the texture that was current untouched, writes the other
\* one and flips the current index.
C24_ForcingAtomicAtBoundary ==
    [][lastOp'.op \in ForcingOps =>
          /\ pc = "idle" /\ pc' = "idle"
          /\ textures'[currentTexture] = textures[currentTexture]
          /\ lastWritten' = 1 - currentTexture
          /\ currentTexture' = 1 - currentTexture]_vars

\* C26: at most one eased transition is in flight: starting a new one
\* replaces the one that was running.
C26_SingleEase == Cardinality(InFlight) <= 1

\* C27: a tick of the RandomWalk journey moves F to a value between F and
\* targetF with |F' - targetF| = 0.98 * |F - targetF| (to one unit of
\* 0.0001), and K likewise towards targetK; a re-rolled target lies in
\* [0.015, 0.06] x [0.045, 0.075].
C27_RandomWalkStep ==
    [][(lastOp'.op = "animate" /\ lastOp'.a = 1 /\ journey'.type = "random") =>
          LET tF == journey'.targetF
              tK == journey'.targetK
          IN /\ Min(params.feedRate, tF) <= params'.feedRate
             /\ params'.feedRate <= Max(params.feedRate, tF)
             /\ Abs(100 * Abs(params'.feedRate - tF)
                    - 98 * Abs(params.feedRate - tF)) <= 100
             /\ Min(params.killRate, tK) <= params'.killRate
             /\ params'.killRate <= Max(params.killRate, tK)
             /\ Abs(100 * Abs(params'.killRate - tK)
                    - 98 * Abs(params.killRate - tK)) <= 100
             /\ 150 <= tF /\ tF <= 600
             /\ 450 <= tK /\ tK <= 750]_vars

====
